---- MODULE Spec2Model ----
(***************************************************************************)
(* Worker lifecycle supervisor and job event relay of pdf-translate        *)
(* (apps/electron/main/index.js) and the notification handlers of the      *)
(* renderer (src/renderer/App.tsx).                                        *)
(*                                                                         *)
(* One step of the model is one turn of the JavaScript event loop: a       *)
(* handler runs from the event that wakes it to its next await, together   *)
(* with the promise reactions (microtasks) it triggers.                    *)
(***************************************************************************)
EXTENDS Integers, Sequences, FiniteSets, TLC

\* ------------------------------------------------------------------ bounds
MaxCalls    == 3      \* startEngineServer() calls per run
MaxProcs    == 2      \* worker processes spawned per run
MaxAttempts == MaxCalls   \* a call creates at most one attempt (line 333)

\* ------------------------------------------------------- program constants
Null        == 0      \* JavaScript null for handles, promises and ports
ENGINE_PORT == 18080

Platforms   == {"win32", "posix"}

VARIABLES
  platform,             \* process.platform, fixed for the run
  engineServerPort,     \* let engineServerPort
  engineServerProcess,  \* let engineServerProcess (a process id of the model, or Null)
  engineServerReady,    \* let engineServerReady (an attempt id of the model, or Null)
  isStoppingEngine,     \* let isStoppingEngine
  attempt,              \* the async bodies created at line 333, by attempt id
  caller,               \* the startEngineServer() calls, by call id
  proc,                 \* the child processes spawned at line 345, by process id
  nAttempts, nCalls, nProcs,
  quitPc,               \* "running", "quitting" after before-quit, "quit" after will-quit
  stopThrew,            \* history: an exception left stopEngineServer()
  burst,                \* history: the calls and spawns since a first call in a quiet state
  \* waitForEngineHealthy on a clock
  now,                  \* Date.now(), in milliseconds
  wait,                 \* one run of waitForEngineHealthy
  \* job event relay
  wire,                 \* the characters the worker writes to the event stream
  delivered,            \* how many of them the 'data' events have delivered
  chunks,               \* history: the number of 'data' events, counted up to 3
  relay,                \* the relay of one job, a record of
                        \*   buffer:   let buffer (line 431)
                        \*   sent:     the notifications passed to webContents.send, in order
                        \*   eventLog: the events logged at line 444, in order
                        \*   causes:   history: for each notification of sent, the
                        \*             place in eventLog of the event that caused it
                        \*             (0: the stream's request failing)
                        \*   fetch:    the fetchResultWithRetry chains of line 449, in order
                        \*   streams:  history: the requests for /events made for the job
  otherJob,             \* the stream of a second job, opened by another call of
                        \* openProgressStream: its position, the characters it
                        \* delivers, its let buffer and its result fetches
  streamPc,             \* openProgressStream(jobId): "idle" before the call, "none"
                        \* after the return of line 423, "open", or "failed" after
                        \* the request's 'error' event
  \* renderer
  jobIdRef,             \* jobIdRef.current
  selectedFilePath, isTranslating, progressPct, statusText, uiResult, uiError,
  startCalls,           \* the start() calls awaiting window.pdf2zh.start (line 114)
  getResultPending,     \* per job, the getResult calls of line 68 not yet answered
  handled,              \* history: the last notification a renderer handler received,
                        \* jobIdRef.current at that time, and whether the handler
                        \* changed what the UI shows
  startHandler          \* the start-translate handler of the main process serving a
                        \* start() call: its position, how it settled, and how many
                        \* of the relay's notifications the renderer has received

supVars == <<platform, engineServerPort, engineServerProcess, engineServerReady,
             isStoppingEngine, attempt, caller, proc, nAttempts, nCalls, nProcs,
             quitPc, stopThrew, burst>>

pollVars  == <<now, wait>>
relayVars == <<wire, delivered, chunks, relay, streamPc, otherJob>>
uiVars    == <<jobIdRef, selectedFilePath, isTranslating, progressPct, statusText,
               uiResult, uiError, startCalls, getResultPending, handled,
               startHandler>>

vars == <<supVars, pollVars, relayVars, uiVars>>

\* ---------------------------------------------------------------- helpers
NoOutcome      == [kind |-> "none", port |-> Null, error |-> ""]
PortOutcome(p) == [kind |-> "port", port |-> p, error |-> ""]
ErrOutcome(e)  == [kind |-> "error", port |-> Null, error |-> e]

ResolutionError    == "no usable pdf2zh server command"
HealthTimeoutError == "engine health check timed out (10s)"

NoResponse  == [arrived |-> FALSE, ok |-> FALSE, status |-> "", pidIsNumber |-> FALSE]
OkResponse  == [arrived |-> TRUE, ok |-> TRUE, status |-> "ok", pidIsNumber |-> TRUE]
IdleAttempt == [pc |-> "idle", firstProbeOk |-> FALSE, proc |-> Null,
                outcome |-> NoOutcome, stopped |-> FALSE]
IdleCaller  == [st |-> "idle", att |-> Null, creator |-> FALSE, outcome |-> NoOutcome]
NoProc      == [st |-> "none", sigterm |-> 0, sigkill |-> 0, timer |-> FALSE]
NoBurst     == [att |-> Null, spawns |-> 0, calls |-> {}, done |-> FALSE]

Attempts == 1..MaxAttempts
Calls    == 1..MaxCalls
Procs    == 1..MaxProcs

\* The main process lives until its will-quit handlers have run.
Running == quitPc # "quit"

Pending(a) == attempt[a].pc \in {"probe", "poll", "sleep"}
Settled(a) == attempt[a].pc \in {"resolved", "rejected"}
Alive(p)   == proc[p].st = "alive"

\* The responses a GET /health can end with: a timeout or network error, or a
\* response with a status (ok = 2xx) and a JSON payload.
HealthResponses ==
  {NoResponse} \cup
  [arrived : {TRUE}, ok : BOOLEAN, status : {"ok", "starting"}, pidIsNumber : BOOLEAN]

isEngineHealthyPayloadPidString(payload) == payload.status = "ok" /\ ~payload.pidIsNumber
isEngineHealthyPayload(payload) == payload.status = "ok" /\ payload.pidIsNumber

checkEngineHealth(r) ==
  IF r.arrived THEN r.ok /\ isEngineHealthyPayload(r) ELSE FALSE


\* ------------------------------------------- the parts a specification leaves idle
NoJobId   == ""       \* a null (falsy) jobId
NoResult  == [ok |-> FALSE, error |-> "", detail |-> "", filename |-> ""]
IdleWait  == [pc |-> "idle", deadline |-> 0, result |-> "none", allTimedOut |-> TRUE]
IdleRelay == [buffer |-> <<>>, sent |-> <<>>, eventLog |-> <<>>, causes |-> <<>>,
              fetch |-> <<>>, streams |-> 0]
OpenedRelay == [IdleRelay EXCEPT !.streams = 1]
IdleOther == [pc |-> "idle", wire |-> <<>>, delivered |-> 0, buffer |-> <<>>,
              fetch |-> <<>>]
NoNotification == [channel |-> "", jobId |-> NoJobId, type |-> "", pct |-> 0, ok |-> FALSE,
                   result |-> NoResult, message |-> "", detail |-> ""]
JobIds == {"j1", "j2"}
NothingHandled == [note |-> NoNotification, watched |-> NoJobId, changed |-> FALSE]
IdleHandler == [pc |-> "idle", reply |-> "none", jobId |-> NoJobId, seen |-> 0]

PollIdle ==
  /\ now = 0
  /\ wait = IdleWait

RelayIdle ==
  /\ wire = <<>> /\ delivered = 0 /\ chunks = 0
  /\ relay = IdleRelay /\ streamPc = "idle"
  /\ otherJob = IdleOther

UiIdle ==
  /\ jobIdRef = NoJobId /\ selectedFilePath = ""
  /\ isTranslating = FALSE /\ progressPct = 0 /\ statusText = ""
  /\ uiResult = NoResult /\ uiError = ""
  /\ startCalls = 0 /\ getResultPending = [j \in JobIds |-> 0]
  /\ handled = NothingHandled
  /\ startHandler = IdleHandler

\* ------------------------------------------------------ lifecycle supervisor
otherVars == <<pollVars, relayVars, uiVars>>

SupInit ==
  /\ platform \in Platforms
  /\ engineServerPort = Null
  /\ engineServerProcess = Null
  /\ engineServerReady = Null
  /\ isStoppingEngine = FALSE
  /\ attempt = [a \in Attempts |-> IdleAttempt]
  /\ caller = [c \in Calls |-> IdleCaller]
  /\ proc = [p \in Procs |-> NoProc]
  /\ nAttempts = 0 /\ nCalls = 0 /\ nProcs = 0
  /\ quitPc = "running"
  /\ stopThrew = FALSE
  /\ burst = NoBurst

\* The promise of attempt a settles with outcome o: every call awaiting it
\* (line 387) or returning it (line 332) settles the same way.
SettleCallers(cl, a, o) ==
  [c \in Calls |->
     IF cl[c].st = "pending" /\ cl[c].att = a
     THEN [cl[c] EXCEPT !.st = IF o.kind = "port" THEN "resolved" ELSE "rejected",
                        !.outcome = o]
     ELSE cl[c]]

BurstSettle(a) ==
  IF burst.att = a /\ ~burst.done THEN [burst EXCEPT !.done = TRUE] ELSE burst

BurstBroken ==
  IF burst.att # Null /\ ~burst.done THEN NoBurst ELSE burst

BurstSpawn ==
  IF burst.att # Null /\ ~burst.done THEN [burst EXCEPT !.spawns = @ + 1] ELSE burst

\* line 332: a call returns the recorded promise instead of starting an attempt.
ReturnsExistingNever == FALSE
ReturnsExisting == engineServerReady # Null

\* startEngineServer(), lines 331-334 and 386-387: the call up to its first await.
StartCall ==
  /\ Running
  /\ nCalls < MaxCalls
  /\ LET c == nCalls + 1 IN
     IF ReturnsExisting
     THEN LET a == engineServerReady
              joined == [st |-> "pending", att |-> a, creator |-> FALSE,
                         outcome |-> NoOutcome]
          IN /\ caller' = IF Settled(a)
                          THEN SettleCallers([caller EXCEPT ![c] = joined], a,
                                             attempt[a].outcome)
                          ELSE [caller EXCEPT ![c] = joined]
             /\ burst' = IF burst.att # Null /\ ~burst.done
                         THEN [burst EXCEPT !.calls = @ \cup {c}]
                         ELSE burst
             /\ UNCHANGED <<attempt, nAttempts, engineServerReady>>
     ELSE /\ nAttempts < MaxAttempts
          /\ LET a == nAttempts + 1 IN
             /\ attempt' = [attempt EXCEPT ![a].pc = "probe"]
             /\ nAttempts' = a
             /\ engineServerReady' = a
             /\ caller' = [caller EXCEPT ![c] = [st |-> "pending", att |-> a,
                                                 creator |-> TRUE,
                                                 outcome |-> NoOutcome]]
             /\ burst' = IF burst.att # Null /\ ~burst.done
                         THEN [burst EXCEPT !.calls = @ \cup {c}]
                         ELSE IF \A b \in Attempts : ~Pending(b)
                              THEN [att |-> a, spawns |-> 0, calls |-> {c},
                                    done |-> FALSE]
                              ELSE NoBurst
  /\ nCalls' = nCalls + 1
  /\ UNCHANGED <<platform, engineServerPort, engineServerProcess, isStoppingEngine,
                 proc, nProcs, quitPc, stopThrew>>
  /\ UNCHANGED otherVars

\* The outcomes of process.kill(-pid, sig) and of process.kill(pid, sig): a live
\* child can be signalled by pid; its group may or may not be; the pid or group of
\* a child that has exited may be gone (the call throws) or taken by another
\* process.
KillOutcomes(pid) ==
  IF pid = Null THEN {<<FALSE, FALSE>>}
  ELSE IF Alive(pid) THEN {<<g, TRUE>> : g \in BOOLEAN}
  ELSE BOOLEAN \X BOOLEAN

\* line 294: stopEngineServer() is entered; the attempts that await their
\* initial probe (line 334) at that moment are marked for as long as they go on
\* awaiting it.
StopSeen(att) ==
  [a \in Attempts |-> IF att[a].pc = "probe" THEN [att[a] EXCEPT !.stopped = TRUE]
                                             ELSE att[a]]

\* line 295: the early return of stopEngineServer.
StopGuard == engineServerProcess = Null \/ isStoppingEngine

\* lines 321-323: the catch around the signalling code.
StopCatches == TRUE

\* line 325: the handle stopEngineServer leaves in engineServerProcess.
HandleKept == engineServerProcess
HandleAfterStop == Null

\* line 326: the port stopEngineServer leaves in engineServerPort.
PortKept == engineServerPort
PortAfterStop == Null

\* line 325: the finally block resets the flag that line 296 set, within the
\* same synchronous call.
FlagLeftSet == TRUE
FlagAfterStop == FALSE

\* line 302: taskkill /PID pid /T /F, run to its end by spawnSync.
TaskKill(pr, pid) ==
  [pr EXCEPT ![pid].sigkill = @ + 1,
             ![pid].st = IF @ = "alive" THEN "exited" ELSE @]

\* lines 304-320: SIGTERM was sent to the group or to the pid, and the timer of
\* the SIGKILL is set.
SigtermNoTimer(pr, pid) == [pr EXCEPT ![pid].sigterm = @ + 1]
SigtermThenTimer(pr, pid) == [pr EXCEPT ![pid].sigterm = @ + 1, ![pid].timer = TRUE]

\* stopEngineServer(), lines 294-329, as the values it leaves; groupOk and pidOk
\* say whether process.kill(-pid, 'SIGTERM') and process.kill(pid, 'SIGTERM')
\* succeed.
StopEngineServer(groupOk, pidOk) ==
  IF StopGuard
  THEN [proc |-> proc, engineServerProcess |-> engineServerProcess,
        engineServerPort |-> engineServerPort, engineServerReady |-> engineServerReady,
        isStoppingEngine |-> isStoppingEngine, threw |-> FALSE, acted |-> FALSE]
  ELSE LET pid == engineServerProcess
           raised == platform # "win32" /\ ~groupOk /\ ~pidOk
           signalled ==
             IF platform = "win32"
             THEN TaskKill(proc, pid)
             ELSE IF groupOk \/ pidOk
             THEN SigtermThenTimer(proc, pid)
             ELSE proc    \* both calls threw: caught at line 321, no timer is set
       IN [proc |-> signalled, engineServerProcess |-> HandleAfterStop,
           engineServerPort |-> PortAfterStop, engineServerReady |-> Null,
           isStoppingEngine |-> FlagAfterStop, threw |-> (raised /\ ~StopCatches),
           acted |-> TRUE]

\* app.on('before-quit') and app.on('will-quit'), lines 205-213: each calls
\* stopEngineServer(); after will-quit the main process exits.
QuitEvent ==
  /\ Running
  /\ quitPc' = IF quitPc = "running" THEN "quitting" ELSE "quit"
  /\ \E ko \in KillOutcomes(engineServerProcess) :
       LET s == StopEngineServer(ko[1], ko[2]) IN
       /\ proc' = s.proc
       /\ engineServerProcess' = s.engineServerProcess
       /\ engineServerPort' = s.engineServerPort
       /\ engineServerReady' = s.engineServerReady
       /\ isStoppingEngine' = s.isStoppingEngine
       /\ stopThrew' = (stopThrew \/ s.threw)
  /\ attempt' = StopSeen(attempt)
  /\ burst' = BurstBroken
  /\ UNCHANGED <<platform, caller, nAttempts, nCalls, nProcs>>
  /\ UNCHANGED otherVars

\* The timer of line 309 fires: SIGKILL to the group, else to the pid, else nothing.
KillTimerFire(p) ==
  /\ Running
  /\ proc[p].timer
  /\ \E ko \in KillOutcomes(p) :
       proc' = [proc EXCEPT ![p].timer = FALSE,
                            ![p].sigkill = IF ko[1] \/ ko[2] THEN @ + 1 ELSE @]
  /\ UNCHANGED <<platform, engineServerPort, engineServerProcess, engineServerReady,
                 isStoppingEngine, attempt, caller, nAttempts, nCalls, nProcs,
                 quitPc, stopThrew, burst>>
  /\ UNCHANGED otherVars

\* The worker process ends (it crashes, or obeys a signal).
ProcExit(p) ==
  /\ Running
  /\ Alive(p)
  /\ proc' = [proc EXCEPT ![p].st = "exited"]
  /\ UNCHANGED <<platform, engineServerPort, engineServerProcess, engineServerReady,
                 isStoppingEngine, attempt, caller, nAttempts, nCalls, nProcs,
                 quitPc, stopThrew, burst>>
  /\ UNCHANGED otherVars

\* engineServerProcess.on('close'), lines 368-373.
OnClose(p) ==
  /\ Running
  /\ proc[p].st = "exited"
  /\ proc' = [proc EXCEPT ![p].st = "closed"]
  /\ engineServerPort' = Null
  /\ engineServerReady' = Null
  /\ engineServerProcess' = Null
  /\ burst' = BurstBroken
  /\ UNCHANGED <<platform, isStoppingEngine, attempt, caller, nAttempts, nCalls,
                 nProcs, quitPc, stopThrew>>
  /\ UNCHANGED otherVars


\* resolveEngineServerCommand, lines 259-292: a command is found, or the call
\* throws the list of the candidates it tried.
CommandResolutions == BOOLEAN

\* The async body of line 333 after its first health probe (lines 334-375): it
\* adopts a healthy worker, or fails to resolve a command, or spawns a child,
\* registers its handlers and starts polling.
ProbeDone(a) ==
  /\ Running
  /\ attempt[a].pc = "probe"
  /\ \E r \in HealthResponses :
       IF checkEngineHealth(r)
       THEN /\ engineServerPort' = ENGINE_PORT
            /\ attempt' = [attempt EXCEPT ![a].pc = "resolved",
                                          ![a].firstProbeOk = (r = OkResponse), ![a].stopped = FALSE,
                                          ![a].outcome = PortOutcome(ENGINE_PORT)]
            /\ caller' = SettleCallers(caller, a, PortOutcome(ENGINE_PORT))
            /\ burst' = BurstSettle(a)
            /\ UNCHANGED <<engineServerProcess, engineServerReady, proc, nProcs>>
       ELSE \E found \in CommandResolutions :
              IF ~found
              THEN /\ attempt' = [attempt EXCEPT ![a].pc = "rejected",
                                                 ![a].firstProbeOk = (r = OkResponse), ![a].stopped = FALSE,
                                                 ![a].outcome = ErrOutcome(ResolutionError)]
                   /\ caller' = SettleCallers(caller, a, ErrOutcome(ResolutionError))
                   /\ engineServerReady' = Null      \* line 389
                   /\ burst' = BurstSettle(a)
                   /\ UNCHANGED <<engineServerPort, engineServerProcess, proc, nProcs>>
              ELSE /\ nProcs < MaxProcs
                   /\ LET p == nProcs + 1 IN
                      /\ proc' = [proc EXCEPT ![p].st = "alive"]
                      /\ nProcs' = p
                      /\ engineServerProcess' = p    \* line 345
                      /\ attempt' = [attempt EXCEPT ![a].pc = "poll",
                                                    ![a].firstProbeOk = (r = OkResponse), ![a].stopped = FALSE,
                                                    ![a].proc = p]
                   /\ burst' = BurstSpawn
                   /\ UNCHANGED <<engineServerPort, engineServerReady, caller>>
  /\ UNCHANGED <<platform, isStoppingEngine, nAttempts, nCalls, quitPc, stopThrew>>
  /\ UNCHANGED otherVars

\* waitForEngineHealthy, lines 125-127, and lines 381-383: a probe of the polling
\* loop ends; a healthy one resolves the attempt, another one starts the sleep.
PollProbeDone(a) ==
  /\ Running
  /\ attempt[a].pc = "poll"
  /\ \E r \in HealthResponses :
       IF checkEngineHealth(r)
       THEN /\ engineServerPort' = ENGINE_PORT
            /\ attempt' = [attempt EXCEPT ![a].pc = "resolved",
                                          ![a].outcome = PortOutcome(ENGINE_PORT)]
            /\ caller' = SettleCallers(caller, a, PortOutcome(ENGINE_PORT))
            /\ burst' = BurstSettle(a)
       ELSE /\ attempt' = [attempt EXCEPT ![a].pc = "sleep"]
            /\ UNCHANGED <<engineServerPort, caller, burst>>
  /\ UNCHANGED <<platform, engineServerProcess, engineServerReady, isStoppingEngine,
                 proc, nAttempts, nCalls, nProcs, quitPc, stopThrew>>
  /\ UNCHANGED otherVars

\* waitForEngineHealthy, lines 124-129, and lines 376-379 and 388-390: the sleep
\* of the polling loop ends; before the deadline the next probe starts, after it
\* the attempt stops the worker and rejects. The clock is not part of this
\* specification: both outcomes of Date.now() < deadline are possible here.
PollWake(a) ==
  /\ Running
  /\ attempt[a].pc = "sleep"
  /\ \/ /\ attempt' = [attempt EXCEPT ![a].pc = "poll"]
        /\ UNCHANGED <<engineServerPort, engineServerProcess, engineServerReady,
                       isStoppingEngine, proc, caller, stopThrew, burst>>
     \/ \E ko \in KillOutcomes(engineServerProcess) :
          LET s == StopEngineServer(ko[1], ko[2]) IN
          /\ proc' = s.proc
          /\ engineServerProcess' = s.engineServerProcess
          /\ engineServerPort' = s.engineServerPort
          /\ isStoppingEngine' = s.isStoppingEngine
          /\ stopThrew' = (stopThrew \/ s.threw)
          /\ engineServerReady' = Null               \* lines 327 and 389
          /\ attempt' = [StopSeen(attempt) EXCEPT
                           ![a].pc = "rejected",
                           ![a].outcome = ErrOutcome(HealthTimeoutError)]
          /\ caller' = SettleCallers(caller, a, ErrOutcome(HealthTimeoutError))
          /\ burst' = BurstSettle(a)
  /\ UNCHANGED <<platform, nAttempts, nCalls, nProcs, quitPc>>
  /\ UNCHANGED otherVars

SupIdle ==
  /\ platform = "posix"
  /\ engineServerPort = ENGINE_PORT
  /\ engineServerProcess = Null
  /\ engineServerReady = Null
  /\ isStoppingEngine = FALSE
  /\ attempt = [a \in Attempts |-> IdleAttempt]
  /\ caller = [c \in Calls |-> IdleCaller]
  /\ proc = [p \in Procs |-> NoProc]
  /\ nAttempts = 0 /\ nCalls = 0 /\ nProcs = 0
  /\ quitPc = "running"
  /\ stopThrew = FALSE
  /\ burst = NoBurst

Init == SupInit /\ PollIdle /\ RelayIdle /\ UiIdle

Next ==
  \/ StartCall
  \/ QuitEvent
  \/ \E a \in Attempts : ProbeDone(a)
  \/ \E a \in Attempts : PollProbeDone(a)
  \/ \E a \in Attempts : PollWake(a)
  \/ \E p \in Procs : KillTimerFire(p)
  \/ \E p \in Procs : ProcExit(p)
  \/ \E p \in Procs : OnClose(p)

Spec == Init /\ [][Next]_vars

TypeOK ==
  /\ engineServerPort \in {Null, ENGINE_PORT}
  /\ engineServerProcess \in {Null} \cup Procs
  /\ engineServerReady \in {Null} \cup Attempts
  /\ isStoppingEngine \in BOOLEAN



\* ------------------------------------------- waitForEngineHealthy on a clock
HEALTH_CHECK_TIMEOUT_MS == 300
HEALTH_POLL_INTERVAL_MS == 200
HEALTH_POLL_TOTAL_MS    == 10000

\* Date.now() when waitForEngineHealthy is called.
StartTimes == {0, 130}

\* The time a /health response takes when one arrives before the abort timer of
\* line 102.
ResponseDelays == {20, 150, 290}

\* line 124: the test of the polling loop.
LoopContinuesAtDeadline(t, deadline) == t <= deadline
LoopContinues(t, deadline) == t < deadline

PollInit ==
  /\ now \in StartTimes
  /\ wait = IdleWait

\* waitForEngineHealthy, lines 123-125: the deadline is set, the loop is entered
\* and the first probe is sent.
WaitStart ==
  /\ wait.pc = "idle"
  /\ LET deadline == now + HEALTH_POLL_TOTAL_MS IN
     wait' = IF LoopContinues(now, deadline)
             THEN [wait EXCEPT !.pc = "probe", !.deadline = deadline]
             ELSE [wait EXCEPT !.pc = "done", !.deadline = deadline, !.result = "timeout"]
  /\ UNCHANGED <<now, supVars, relayVars, uiVars>>

\* checkEngineHealth inside the loop, lines 125-127: a response arrives after d
\* milliseconds, or the abort timer fires after HEALTH_CHECK_TIMEOUT_MS and the
\* probe counts as unhealthy; a healthy probe ends the wait, another one starts
\* the sleep of HEALTH_POLL_INTERVAL_MS.
WaitProbeEnds ==
  /\ wait.pc = "probe"
  /\ \E r \in HealthResponses :
     \E d \in IF r.arrived THEN ResponseDelays ELSE {HEALTH_CHECK_TIMEOUT_MS} :
       /\ d <= HEALTH_CHECK_TIMEOUT_MS
       /\ now' = now + d
       /\ wait' = IF checkEngineHealth(r)
                  THEN [wait EXCEPT !.pc = "done", !.result = "healthy",
                                    !.allTimedOut = FALSE]
                  ELSE [wait EXCEPT !.pc = "sleep",
                                    !.allTimedOut = @ /\ ~r.arrived]
  /\ UNCHANGED <<supVars, relayVars, uiVars>>

\* lines 127, 124 and 129: the sleep ends; the loop goes on before the deadline
\* and returns false from it on.
WaitSleepEnds ==
  /\ wait.pc = "sleep"
  /\ now' = now + HEALTH_POLL_INTERVAL_MS
  /\ wait' = IF LoopContinues(now', wait.deadline)
             THEN [wait EXCEPT !.pc = "probe"]
             ELSE [wait EXCEPT !.pc = "done", !.result = "timeout"]
  /\ UNCHANGED <<supVars, relayVars, uiVars>>

PollNext == WaitStart \/ WaitProbeEnds \/ WaitSleepEnds

InitPoll == SupIdle /\ PollInit /\ RelayIdle /\ UiIdle

SpecPoll == InitPoll /\ [][PollNext]_vars


\* ------------------------------------------------------------ job event relay
\* Strings are sequences of characters. The JSON texts the worker sends:
\* {"type":"progress","jobId":"j1","pct":42}  (a progress event of job j1)
JsonProgress ==
  <<"{", "\"", "t", "y", "p", "e", "\"", ":", "\"", "p", "r", "o", "g", "r", "e",
    "s", "s", "\"", ",", "\"", "j", "o", "b", "I", "d", "\"", ":", "\"", "j", "1",
    "\"", ",", "\"", "p", "c", "t", "\"", ":", "4", "2", "}">>

\* {"type":"done"}  (a done event)
JsonDone ==
  <<"{", "\"", "t", "y", "p", "e", "\"", ":", "\"", "d", "o", "n", "e", "\"", "}">>

\* {"type":"error"}  (an error event)
JsonError ==
  <<"{", "\"", "t", "y", "p", "e", "\"", ":", "\"", "e", "r", "r", "o", "r", "\"", "}">>

\* {"type":"log"}  (an event of a type the relay does not know)
JsonOther ==
  <<"{", "\"", "t", "y", "p", "e", "\"", ":", "\"", "l", "o", "g", "\"", "}">>

\* {"type":  (no JSON text: JSON.parse throws)
JsonBroken ==
  <<"{", "\"", "t", "y", "p", "e", "\"", ":">>

DataPrefix == <<"d", "a", "t", "a", ":">>
Newline    == "\n"
WhiteSpace == {" ", "\t", "\r", "\n"}

\* The job the stream was opened for (the argument of openProgressStream).
StreamJob == "j1"

\* JSON.parse (line 443) on the texts above: the payload, or a thrown error.
ParseError == [type |-> "SyntaxError", jobId |-> NoJobId, pct |-> 0, message |-> ""]
JSONparse(text) ==
  IF text = JsonProgress
  THEN [type |-> "progress", jobId |-> "j1", pct |-> 42, message |-> ""]
  ELSE IF text = JsonDone
  THEN [type |-> "done", jobId |-> NoJobId, pct |-> 0, message |-> ""]
  ELSE IF text = JsonError
  THEN [type |-> "error", jobId |-> NoJobId, pct |-> 0, message |-> ""]
  ELSE IF text = JsonOther
  THEN [type |-> "log", jobId |-> NoJobId, pct |-> 0, message |-> ""]
  ELSE ParseError

\* String.prototype.trim
RECURSIVE TrimLeft(_)
TrimLeft(str) ==
  IF str # <<>> /\ Head(str) \in WhiteSpace THEN TrimLeft(Tail(str)) ELSE str

RECURSIVE TrimRight(_)
TrimRight(str) ==
  IF str # <<>> /\ str[Len(str)] \in WhiteSpace
  THEN TrimRight(SubSeq(str, 1, Len(str) - 1)) ELSE str

Trim(str) == TrimRight(TrimLeft(str))

\* buffer.indexOf('\n') as a position from 1; 0 when there is none.
IndexOfNewline(str) ==
  IF \E i \in 1..Len(str) : str[i] = Newline
  THEN CHOOSE i \in 1..Len(str) : str[i] = Newline /\ \A k \in 1..(i - 1) : str[k] # Newline
  ELSE 0

StartsWithData(line) ==
  Len(line) >= Len(DataPrefix) /\ SubSeq(line, 1, Len(DataPrefix)) = DataPrefix

\* The notifications of lines 446, 453-460, 464-469, 473 and 483. A payload's own
\* jobId replaces the stream's ({ jobId, ...payload }).
EventNote(channel, payload) ==
  [channel |-> channel,
   jobId |-> IF payload.jobId # NoJobId THEN payload.jobId ELSE StreamJob,
   type |-> payload.type, pct |-> payload.pct, ok |-> FALSE, result |-> NoResult,
   message |-> payload.message, detail |-> ""]

DoneNote(ok, result) ==
  [channel |-> "pdf2zh:done", jobId |-> StreamJob, type |-> "", pct |-> 0, ok |-> ok,
   result |-> result, message |-> "", detail |-> ""]

ErrorNote(message, detail) ==
  [channel |-> "pdf2zh:error", jobId |-> StreamJob, type |-> "", pct |-> 0, ok |-> FALSE,
   result |-> NoResult, message |-> message, detail |-> detail]

\* fetchResultWithRetry(jobId): retries = 10 by default (line 407).
DefaultRetries == 10
NewFetch(event) ==
  [pc |-> "request", retries |-> DefaultRetries, requests |-> 1, answers |-> 0,
   notFinished |-> 0, last |-> NoResult, ending |-> "", event |-> event]

\* Lines 439-474: one line of the stream, trimmed. st holds the relay's sent
\* notifications, logged events and started result fetches.
HandleLine(line, st) ==
  IF ~StartsWithData(line) THEN st
  ELSE LET jsonStr == Trim(SubSeq(line, Len(DataPrefix) + 1, Len(line)))
           payload == JSONparse(jsonStr)
       IN IF jsonStr = <<>> THEN st
          ELSE IF payload = ParseError THEN st
          ELSE LET logged == [st EXCEPT !.eventLog = Append(@, payload.type)] IN
               IF payload.type = "progress"
               THEN [logged EXCEPT !.sent = Append(@, EventNote("pdf2zh:progress", payload)),
                                   !.causes = Append(@, Len(logged.eventLog))]
               ELSE IF payload.type = "done"
               THEN [logged EXCEPT !.fetch = Append(@, NewFetch(Len(logged.eventLog)))]
               ELSE IF payload.type = "error"
               THEN [logged EXCEPT !.sent = Append(@, EventNote("pdf2zh:error", payload)),
                                   !.causes = Append(@, Len(logged.eventLog))]
               ELSE logged

\* Lines 436-478: the loop over the complete lines of the buffer.
RECURSIVE Drain(_)
Drain(st) ==
  LET index == IndexOfNewline(st.buffer) IN
  IF index = 0 THEN st
  ELSE LET line == Trim(SubSeq(st.buffer, 1, index - 1))
           rest == SubSeq(st.buffer, index + 1, Len(st.buffer))
       IN Drain(HandleLine(line, [st EXCEPT !.buffer = rest]))

\* line 434: buffer += chunk.toString()
BufferReplaced(buf, chunk) == chunk
BufferAdd(buf, chunk) == buf \o chunk

\* res.on('data'), lines 433-479, on the state st.
OnDataResult(st, chunk) == Drain([st EXCEPT !.buffer = BufferAdd(@, chunk)])


\* The lines the worker may write, without their newline.
LineProgress == DataPrefix \o <<" ">> \o JsonProgress
LineDone     == DataPrefix \o JsonDone
LineError    == <<" ">> \o DataPrefix \o <<" ">> \o JsonError \o <<" ", "\r">>
LinePing     == <<":", " ", "p", "i", "n", "g">>
LineBroken   == DataPrefix \o <<" ">> \o JsonBroken
LineOther    == DataPrefix \o <<" ">> \o JsonOther
LineEmpty    == DataPrefix \o <<" ">>

Lines == {LineProgress, LineDone, LineError, LinePing, LineBroken, LineOther, LineEmpty}

\* What may follow the last newline when the stream is cut off.
Tails == {<<>>, SubSeq(LineDone, 1, 9)}

MaxLines == 2         \* complete lines per stream

RECURSIVE Concat(_)
Concat(ls) == IF ls = <<>> THEN <<>> ELSE Head(ls) \o <<Newline>> \o Concat(Tail(ls))

LineSeqs == UNION {[1..n -> Lines] : n \in 0..MaxLines}

Streams == {Concat(ls) \o tail : ls \in LineSeqs, tail \in Tails}

MaxDone == 1          \* 'done' events per stream of the relay with its result fetches

DoneCount(ls) == Cardinality({i \in DOMAIN ls : ls[i] = LineDone})

FetchStreams ==
  {Concat(ls) \o tail : ls \in {l \in LineSeqs : DoneCount(l) <= MaxDone}, tail \in Tails}

RelayInit(streams, pc) ==
  /\ wire \in streams
  /\ delivered = 0 /\ chunks = 0
  /\ relay = (IF pc = "open" THEN OpenedRelay ELSE IdleRelay)
  /\ streamPc = pc
  /\ otherJob = IdleOther

\* openProgressStream(jobId), lines 422-430 and 486, called by the start-translate
\* handler once the job exists (lines 516-519).
OpenStream ==
  /\ streamPc = "idle"
  /\ IF engineServerPort = Null
     THEN streamPc' = "none" /\ UNCHANGED relay
     ELSE streamPc' = "open" /\ relay' = [relay EXCEPT !.streams = @ + 1]
  /\ UNCHANGED <<wire, delivered, chunks, otherJob>>

OpenProgressStream == OpenStream /\ UNCHANGED <<supVars, pollVars, uiVars>>

\* res.on('data'), lines 433-479: the next n characters arrive as one chunk.
OnData(n) ==
  /\ streamPc = "open"
  /\ n \in 1..(Len(wire) - delivered)
  /\ relay' = OnDataResult(relay, SubSeq(wire, delivered + 1, delivered + n))
  /\ delivered' = delivered + n
  /\ chunks' = IF chunks < 3 THEN chunks + 1 ELSE chunks
  /\ UNCHANGED <<wire, streamPc, otherJob, supVars, pollVars, uiVars>>

\* The chunk sizes that end at a newline or at the end of the stream.
LineEnds ==
  {n \in 1..(Len(wire) - delivered) :
     wire[delivered + n] = Newline \/ delivered + n = Len(wire)}

OnDataAnyChunk  == \E n \in 1..(Len(wire) - delivered) : OnData(n)
OnDataLineChunk == \E n \in LineEnds : OnData(n)

\* lines 482-484: the handler of the request's 'error' event sends the
\* notification and does nothing else; no new request is made.
StreamReopened == "idle"
StreamAfterError == "failed"

\* req.on('error'), lines 482-484.
StreamError ==
  /\ streamPc = "open"
  /\ streamPc' = StreamAfterError
  /\ relay' = [relay EXCEPT !.sent = Append(@, ErrorNote("socket hang up", "")),
                            !.causes = Append(@, 0)]
  /\ UNCHANGED <<wire, delivered, chunks, otherJob, supVars, pollVars, uiVars>>

\* The answers of GET /result (section 6 of the protocol).
AnswerOk          == [ok |-> TRUE, error |-> "", detail |-> "", filename |-> "x.pdf"]
AnswerNotFinished == [ok |-> FALSE, error |-> "job not finished", detail |-> "", filename |-> ""]
AnswerFailed      == [ok |-> FALSE, error |-> "translate failed", detail |-> "traceback", filename |-> ""]
AnswerEmpty       == [ok |-> FALSE, error |-> "", detail |-> "", filename |-> ""]
ResultAnswers     == {AnswerOk, AnswerNotFinished, AnswerFailed, AnswerEmpty}

\* line 413: the answer asks for a retry and retries are left.
RetryAllowedOneMore(r, retries) == r.error = "job not finished" /\ retries >= 0
RetryAllowedAnyError(r, retries) == ~r.ok /\ retries > 0
RetryAllowedOneLess(r, retries) == r.error = "job not finished" /\ retries > 1
RetryAllowed(r, retries) == r.error = "job not finished" /\ retries > 0

\* line 457: message: result?.error || '引擎执行失败'
DefaultErrorMessage == "engine failed"
ResultErrorMessageInvented(r) == "result timeout"
ResultErrorMessage(r) == IF r.error # "" THEN r.error ELSE DefaultErrorMessage

\* line 466: message: '获取结果失败'
FetchFailedMessage == "get result failed"

\* Lines 410-419 and 450-462: the relay state st after the answer r to the
\* result request of chain i.
AfterResponse(st, i, r) ==
  IF r.ok
  THEN [st EXCEPT !.fetch[i].pc = "done", !.fetch[i].last = r,
                  !.fetch[i].ending = "resolved",
                  !.fetch[i].answers = @ + 1,
                  !.sent = Append(@, DoneNote(TRUE, r)),
                  !.causes = Append(@, st.fetch[i].event)]
  ELSE IF RetryAllowed(r, st.fetch[i].retries)
  THEN [st EXCEPT !.fetch[i].pc = "delay", !.fetch[i].last = r,
                  !.fetch[i].answers = @ + 1,
                  !.fetch[i].notFinished = @ + 1]
  ELSE [st EXCEPT !.fetch[i].pc = "done", !.fetch[i].last = r,
                  !.fetch[i].ending = "resolved",
                  !.fetch[i].answers = @ + 1,
                  !.fetch[i].notFinished = IF r = AnswerNotFinished THEN @ + 1 ELSE @,
                  !.sent = @ \o <<ErrorNote(ResultErrorMessage(r), r.detail),
                                  DoneNote(FALSE, NoResult)>>,
                  !.causes = @ \o <<st.fetch[i].event, st.fetch[i].event>>]

\* Lines 410-419 and 450-462: an answer to the result request of chain i arrives.
ResultResponse(i) ==
  /\ i \in 1..Len(relay.fetch)
  /\ relay.fetch[i].pc = "request"
  /\ engineServerPort # Null
  /\ \E r \in ResultAnswers : relay' = AfterResponse(relay, i, r)
  /\ UNCHANGED <<wire, delivered, chunks, streamPc, otherJob, supVars, pollVars, uiVars>>

\* Lines 463-470: the relay state st after the result request of chain i failed.
AfterRequestFails(st, i) ==
  [st EXCEPT !.fetch[i].pc = "done", !.fetch[i].ending = "caught",
             !.sent = @ \o <<ErrorNote(FetchFailedMessage, "fetch failed"),
                             DoneNote(FALSE, NoResult)>>,
             !.causes = @ \o <<st.fetch[i].event, st.fetch[i].event>>]

\* Lines 463-470: the result request of chain i fails (no connection, or a body
\* that is no JSON).
ResultRequestFails(i) ==
  /\ i \in 1..Len(relay.fetch)
  /\ relay.fetch[i].pc = "request"
  /\ relay' = AfterRequestFails(relay, i)
  /\ UNCHANGED <<wire, delivered, chunks, streamPc, otherJob, supVars, pollVars, uiVars>>

\* Lines 414-416: the relay state st after the delay of chain i.
AfterRetryTimer(st, i) ==
  [st EXCEPT !.fetch[i].pc = "request", !.fetch[i].retries = @ - 1,
             !.fetch[i].requests = @ + 1]

\* Lines 414-416: the delay of 500 ms ends and the next request is sent.
RetryTimer(i) ==
  /\ i \in 1..Len(relay.fetch)
  /\ relay.fetch[i].pc = "delay"
  /\ relay' = AfterRetryTimer(relay, i)
  /\ UNCHANGED <<wire, delivered, chunks, streamPc, otherJob, supVars, pollVars, uiVars>>

\* The 'data' handler alone, under every cutting of the stream into chunks.
ChunksNext == OnDataAnyChunk

InitChunks == SupIdle /\ PollIdle /\ RelayInit(Streams, "open") /\ UiIdle

SpecChunks == InitChunks /\ [][ChunksNext]_vars

\* The relay of one job: chunks end at line ends.
RelayNext ==
  \/ OpenProgressStream
  \/ OnDataLineChunk
  \/ StreamError
  \/ \E i \in 1..MaxLines : ResultResponse(i)
  \/ \E i \in 1..MaxLines : ResultRequestFails(i)
  \/ \E i \in 1..MaxLines : RetryTimer(i)

InitRelay == SupIdle /\ PollIdle /\ RelayInit(FetchStreams, "idle") /\ UiIdle

SpecRelay == InitRelay /\ [][RelayNext]_vars

\* ---------------------------------------------------------------- two jobs
\* A second call of openProgressStream, for another job, next to the relay of
\* the first: its buffer is the let of its own call (line 431) and its retry
\* counters are the parameters of its own fetchResultWithRetry calls (line 407).

\* The streams of the first job here: one line and what may follow it.
JobStreams == {Concat(<<l>>) \o tail : l \in {LineDone, LineProgress}, tail \in Tails}

\* The stream of the second job: a done line and the start of another line.
OtherStream == Concat(<<LineDone>>) \o SubSeq(LinePing, 1, Len(LinePing) - 1)

\* line 431: let buffer belongs to one call of openProgressStream; what the
\* handler of another call's stream writes to its buffer leaves this one as it is.
BufferOfOneModule(own, written) == written
BufferOfOwnCall(own, written) == own

\* The relay state the handlers of the second job's stream work on.
OtherRelay == [OpenedRelay EXCEPT !.buffer = otherJob.buffer, !.fetch = otherJob.fetch]

\* openProgressStream(jobId) for the second job, lines 422-430.
OtherOpen ==
  /\ otherJob.pc = "idle"
  /\ engineServerPort # Null
  /\ otherJob' = [otherJob EXCEPT !.pc = "open", !.wire = OtherStream]
  /\ UNCHANGED <<wire, delivered, chunks, relay, streamPc, supVars, pollVars, uiVars>>

\* res.on('data') of the second job's stream, lines 433-479: a chunk that ends
\* at a line end arrives.
OtherData ==
  /\ otherJob.pc = "open"
  /\ \E n \in 1..(Len(otherJob.wire) - otherJob.delivered) :
       /\ \/ otherJob.wire[otherJob.delivered + n] = Newline
          \/ otherJob.delivered + n = Len(otherJob.wire)
       /\ LET st == OnDataResult(OtherRelay,
                                 SubSeq(otherJob.wire, otherJob.delivered + 1,
                                        otherJob.delivered + n))
          IN /\ otherJob' = [otherJob EXCEPT !.buffer = st.buffer, !.fetch = st.fetch,
                                             !.delivered = @ + n]
             /\ relay' = [relay EXCEPT !.buffer = BufferOfOwnCall(@, st.buffer)]
  /\ UNCHANGED <<wire, delivered, chunks, streamPc, supVars, pollVars, uiVars>>

\* The result fetch i of the second job takes a step (lines 407-420, 450-470):
\* an answer arrives, the request fails, or the delay ends.
OtherFetchStep(i) ==
  /\ i \in DOMAIN otherJob.fetch
  /\ \/ /\ otherJob.fetch[i].pc = "request"
        /\ engineServerPort # Null
        /\ \E r \in ResultAnswers :
             otherJob' = [otherJob EXCEPT !.fetch = AfterResponse(OtherRelay, i, r).fetch]
     \/ /\ otherJob.fetch[i].pc = "request"
        /\ otherJob' = [otherJob EXCEPT !.fetch = AfterRequestFails(OtherRelay, i).fetch]
     \/ /\ otherJob.fetch[i].pc = "delay"
        /\ otherJob' = [otherJob EXCEPT !.fetch = AfterRetryTimer(OtherRelay, i).fetch]
  /\ UNCHANGED <<wire, delivered, chunks, relay, streamPc, supVars, pollVars, uiVars>>

JobsNext ==
  \/ RelayNext
  \/ OtherOpen
  \/ OtherData
  \/ \E i \in 1..MaxLines : OtherFetchStep(i)

InitJobs == SupIdle /\ PollIdle /\ RelayInit(JobStreams, "idle") /\ UiIdle

SpecJobs == InitJobs /\ [][JobsNext]_vars

\* ---------------------------------------------------------------- renderer
\* App.tsx: the notification handlers registered at lines 47-89, start() and
\* the choice of a file. window.pdf2zh hands each notification's payload to the
\* registered handler.

MaxPending == 2       \* start() calls, and getResult calls per job, awaiting an answer

SomeFile == "a.pdf"

\* The payloads the main process may send on the three channels.
ProgressNotes ==
  {[NoNotification EXCEPT !.channel = "pdf2zh:progress", !.jobId = j, !.type = "progress",
                          !.pct = 42, !.message = "translating"] :
     j \in JobIds \cup {NoJobId}}
DoneOutcomes == {[ok |-> TRUE, result |-> AnswerOk], [ok |-> TRUE, result |-> NoResult],
                 [ok |-> FALSE, result |-> NoResult]}
DonePayloads ==
  {[NoNotification EXCEPT !.channel = "pdf2zh:done", !.jobId = j, !.ok = o.ok,
                          !.result = o.result] :
     j \in JobIds \cup {NoJobId}, o \in DoneOutcomes}
ErrorPayloads ==
  {[NoNotification EXCEPT !.channel = "pdf2zh:error", !.jobId = j, !.message = "boom"] :
     j \in JobIds \cup {NoJobId}}
Notifications == ProgressNotes \cup DonePayloads \cup ErrorPayloads

\* What the UI shows of a job.
Shown == <<progressPct, statusText, isTranslating, uiResult, uiError>>

\* lines 48 and 54: data.jobId && data.jobId === jobIdRef.current
JobMatchesAnyJob(data, watched) == data.jobId # NoJobId
JobMatches(data, watched) == data.jobId # NoJobId /\ data.jobId = watched

\* line 84: !data.jobId || data.jobId === jobIdRef.current
ErrorMatches(data, watched) == data.jobId = NoJobId \/ data.jobId = watched

\* lines 47-52: the onProgress handler.
OnProgress(data) ==
  /\ data.channel = "pdf2zh:progress"
  /\ IF JobMatches(data, jobIdRef)
     THEN progressPct' = data.pct /\ statusText' = data.message
     ELSE UNCHANGED <<progressPct, statusText>>
  /\ UNCHANGED <<isTranslating, uiResult, uiError, selectedFilePath, getResultPending>>

\* lines 53-82: the onDone handler.
OnDone(data) ==
  /\ data.channel = "pdf2zh:done"
  /\ (JobMatches(data, jobIdRef) /\ data.ok /\ data.result = NoResult)
       => getResultPending[data.jobId] < MaxPending
  /\ IF JobMatches(data, jobIdRef)
     THEN /\ isTranslating' = FALSE
          /\ IF data.ok /\ data.result # NoResult
             THEN /\ uiResult' = data.result
                  /\ selectedFilePath' = ""
                  /\ UNCHANGED getResultPending
             ELSE IF data.ok
             THEN /\ getResultPending' = [getResultPending EXCEPT ![data.jobId] = @ + 1]
                  /\ UNCHANGED <<uiResult, selectedFilePath>>
             ELSE UNCHANGED <<uiResult, selectedFilePath, getResultPending>>
     ELSE UNCHANGED <<isTranslating, uiResult, selectedFilePath, getResultPending>>
  /\ UNCHANGED <<progressPct, statusText, uiError>>

\* lines 83-89: the onError handler.
OnError(data) ==
  /\ data.channel = "pdf2zh:error"
  /\ IF ErrorMatches(data, jobIdRef)
     THEN isTranslating' = FALSE /\ uiResult' = NoResult /\ uiError' = data.message
     ELSE UNCHANGED <<isTranslating, uiResult, uiError>>
  /\ UNCHANGED <<progressPct, statusText, selectedFilePath, getResultPending>>

\* lines 47-89: the handler of the notification's channel runs.
Receive(data) ==
  /\ OnProgress(data) \/ OnDone(data) \/ OnError(data)
  /\ handled' = [note |-> data, watched |-> jobIdRef, changed |-> Shown' # Shown]
  /\ UNCHANGED <<jobIdRef, startCalls>>

\* A notification arrives in the renderer.
UiReceive(data) ==
  /\ Receive(data)
  /\ UNCHANGED <<startHandler, supVars, pollVars, relayVars>>

\* lines 69-78: a getResult call of the onDone handler is answered.
UiGetResultReturn(j, r) ==
  /\ getResultPending[j] > 0
  /\ getResultPending' = [getResultPending EXCEPT ![j] = @ - 1]
  /\ IF r.ok /\ r.filename # ""
     THEN uiResult' = r /\ selectedFilePath' = ""
     ELSE UNCHANGED <<uiResult, selectedFilePath>>
  /\ UNCHANGED <<jobIdRef, isTranslating, progressPct, statusText, uiError, startCalls,
                 handled, startHandler,
                 supVars, pollVars, relayVars>>

\* lines 18-35 and 90-93: a file is chosen while no translation runs.
UiSelectFile ==
  /\ ~isTranslating
  /\ selectedFilePath' = SomeFile
  /\ progressPct' = 0 /\ statusText' = "" /\ isTranslating' = FALSE
  /\ uiResult' = NoResult /\ uiError' = ""
  /\ UNCHANGED <<jobIdRef, startCalls, getResultPending, handled,
                 startHandler,
                 supVars, pollVars, relayVars>>

\* lines 105-114: start() up to its await; the button of line 161 is enabled.
UiStart ==
  /\ selectedFilePath # "" /\ ~isTranslating
  /\ startCalls < MaxPending
  /\ startCalls' = startCalls + 1
  /\ isTranslating' = TRUE /\ uiError' = "" /\ progressPct' = 0 /\ statusText' = ""
  /\ uiResult' = NoResult
  /\ UNCHANGED <<jobIdRef, selectedFilePath, getResultPending, handled,
                 startHandler,
                 supVars, pollVars, relayVars>>

\* lines 114-119: window.pdf2zh.start answers with { jobId }, jobId null or a job.
UiStartReturn(j) ==
  /\ startCalls > 0
  /\ startCalls' = startCalls - 1
  /\ jobIdRef' = j
  /\ UNCHANGED <<selectedFilePath, isTranslating, progressPct, statusText, uiResult,
                 uiError, getResultPending, handled, startHandler,
                 supVars, pollVars, relayVars>>

\* line 114: window.pdf2zh.start rejects, and start() ends there.
UiStartRejects ==
  /\ startCalls > 0
  /\ startCalls' = startCalls - 1
  /\ UNCHANGED <<jobIdRef, selectedFilePath, isTranslating, progressPct, statusText,
                 uiResult, uiError, getResultPending, handled,
                 startHandler,
                 supVars, pollVars, relayVars>>

UiNext ==
  \/ \E data \in Notifications : UiReceive(data)
  \/ \E j \in JobIds, r \in {AnswerOk, NoResult} : UiGetResultReturn(j, r)
  \/ UiSelectFile
  \/ UiStart
  \/ \E j \in JobIds \cup {NoJobId} : UiStartReturn(j)
  \/ UiStartRejects

InitUI == SupIdle /\ PollIdle /\ RelayIdle /\ UiIdle

SpecUI == InitUI /\ [][UiNext]_vars

\* ---------------------------------------------------------------- one start() call
\* The first start() call of the renderer, the start-translate handler that
\* serves it (lines 489-521), the relay of the job it creates, and the
\* notifications of that relay on their way to the renderer. The reply of the
\* handler and the notifications travel on one ordered channel, the reply first.

\* What the renderer keeps apart from the handler's state.
rendererVars == <<jobIdRef, selectedFilePath, isTranslating, progressPct, statusText,
                  uiResult, uiError, startCalls, getResultPending, handled>>

\* lines 105-114: the first start() call.
StartOnce == startHandler.pc = "idle" /\ startCalls = 0 /\ UiStart

\* lines 489-500: the invoke reaches the handler; filePath is the file start()
\* found selected (line 106), so the handler goes on to await startEngineServer().
HandlerInvoked ==
  /\ startCalls > 0
  /\ startHandler.pc = "idle"
  /\ startHandler' = [startHandler EXCEPT !.pc = "engine"]
  /\ UNCHANGED <<rendererVars, supVars, pollVars, relayVars>>

\* How startEngineServer() may settle (lines 339, 378, 383 and 291).
StartOutcomes ==
  {PortOutcome(ENGINE_PORT), ErrOutcome(ResolutionError), ErrOutcome(HealthTimeoutError)}

\* line 500: await startEngineServer() settles; a rejection leaves the handler.
\* The service of lines 11 and 154 of App.tsx is 'google' or 'bing', so the
\* branch of lines 501-505 is not taken.
HandlerEngine ==
  /\ startHandler.pc = "engine"
  /\ \E o \in StartOutcomes :
       startHandler' = IF o.kind = "error"
                       THEN [startHandler EXCEPT !.pc = "settled", !.reply = "rejected"]
                       ELSE [startHandler EXCEPT !.pc = "post"]
  /\ UNCHANGED <<rendererVars, supVars, pollVars, relayVars>>

\* lines 512-520: the POST /translate fails and the handler rejects, or it is
\* answered with a jobId or without one; with one the stream is opened.
HandlerPost ==
  /\ startHandler.pc = "post"
  /\ \/ /\ startHandler' = [startHandler EXCEPT !.pc = "settled", !.reply = "rejected"]
        /\ UNCHANGED relayVars
     \/ \E j \in {NoJobId, StreamJob} :
          /\ startHandler' = [startHandler EXCEPT !.pc = "settled", !.reply = "returned",
                                                  !.jobId = j]
          /\ IF j # NoJobId THEN OpenStream ELSE UNCHANGED relayVars
  /\ UNCHANGED <<rendererVars, supVars, pollVars>>

\* lines 114-119 of App.tsx: the reply of the handler reaches start().
ReplyArrives ==
  /\ startHandler.pc = "settled"
  /\ IF startHandler.reply = "rejected"
     THEN UiStartRejects
     ELSE UiStartReturn(startHandler.jobId)

\* The next notification of the relay reaches its handler in the renderer.
NoteArrives ==
  /\ startHandler.pc = "settled"
  /\ startCalls = 0
  /\ startHandler.seen < Len(relay.sent)
  /\ Receive(relay.sent[startHandler.seen + 1])
  /\ startHandler' = [startHandler EXCEPT !.seen = @ + 1]
  /\ UNCHANGED <<supVars, pollVars, relayVars>>

StartNext ==
  \/ UiSelectFile
  \/ StartOnce
  \/ HandlerInvoked
  \/ HandlerEngine
  \/ HandlerPost
  \/ ReplyArrives
  \/ NoteArrives
  \/ OnDataLineChunk
  \/ StreamError
  \/ \E i \in 1..MaxLines : ResultResponse(i)
  \/ \E i \in 1..MaxLines : ResultRequestFails(i)
  \/ \E i \in 1..MaxLines : RetryTimer(i)

InitStart == SupIdle /\ PollIdle /\ RelayInit(JobStreams, "idle") /\ UiIdle

SpecStart == InitStart /\ [][StartNext]_vars

\* ------------------------------------------------------------------ claims

\* C1: of the startEngineServer() calls issued from a first call in a quiet state
\* (no attempt pending) until that call settles, with no stopEngineServer call
\* from a quit event and no 'close' event in between, spawn runs at most once,
\* every call shares the first call's attempt, and every call settles with that
\* attempt's outcome: the same port, or the same error.
C1_SingleFlight ==
  burst.att # Null =>
    /\ burst.spawns <= 1
    /\ \A c \in burst.calls :
         /\ caller[c].att = burst.att
         /\ IF burst.done
            THEN /\ caller[c].st = (IF attempt[burst.att].outcome.kind = "port"
                                    THEN "resolved" ELSE "rejected")
                 /\ caller[c].outcome = attempt[burst.att].outcome
                 /\ attempt[burst.att].outcome.kind # "none"
            ELSE caller[c].st = "pending"

C1_Witness ==
  /\ burst.done
  /\ burst.calls = Calls
  /\ burst.spawns = 1
  /\ \A c \in Calls : caller[c].st = "resolved" /\ caller[c].outcome.port = ENGINE_PORT

\* C2: while a start attempt is pending no second attempt is created: at most one
\* attempt is pending in every reachable state.
C2_OnePendingAttempt ==
  Cardinality({a \in Attempts : Pending(a)}) <= 1

\* C3: at most one worker process spawned by the supervisor is alive in every
\* reachable state.
C3_OneWorkerAlive ==
  Cardinality({p \in Procs : Alive(p)}) <= 1

\* C4: stopEngineServer() never throws; a call from a quit event made while no
\* worker process is owned (no worker was started, or an earlier call has run) sends
\* no signal, sets no timer and changes nothing; and one worker process is sent
\* at most one graceful signal and at most one forced kill over the whole run.
C4_StopIdempotent ==
  /\ [](~stopThrew /\ \A p \in Procs : proc[p].sigterm <= 1 /\ proc[p].sigkill <= 1)
  /\ [][(quitPc' # quitPc /\ engineServerProcess = Null)
          => UNCHANGED <<proc, engineServerProcess, engineServerPort,
                         engineServerReady, isStoppingEngine>>]_vars

C4_Witness ==
  /\ quitPc = "quit"
  /\ nProcs = 1
  /\ proc[1].sigterm = 1
  /\ proc[1].sigkill = 1
  /\ engineServerProcess = Null

\* C5: an attempt whose first probe of the fixed port is healthy (OkResponse: a
\* response with a success status, status "ok" and a numeric pid) resolves with ENGINE_PORT for
\* every caller and never spawns a process; the step that takes the probe sets
\* engineServerPort to ENGINE_PORT and leaves engineServerProcess alone.
C5_AdoptWithoutSpawn ==
  /\ [](\A a \in Attempts :
          attempt[a].firstProbeOk
          => /\ attempt[a].pc = "resolved"
             /\ attempt[a].outcome = PortOutcome(ENGINE_PORT)
             /\ attempt[a].proc = Null
             /\ \A c \in Calls : (caller[c].st # "idle" /\ caller[c].att = a)
                   => caller[c].st = "resolved" /\ caller[c].outcome.port = ENGINE_PORT)
  /\ [][\A a \in Attempts :
          (attempt[a].pc = "probe" /\ attempt'[a].firstProbeOk)
          => /\ engineServerPort' = ENGINE_PORT
             /\ UNCHANGED <<engineServerProcess, proc, nProcs>>]_vars

C5_Witness ==
  \E a \in Attempts :
    /\ attempt[a].pc = "resolved"
    /\ attempt[a].firstProbeOk
    /\ engineServerPort = ENGINE_PORT
    /\ engineServerProcess = Null
    /\ nProcs = 0
    /\ \E c \in Calls : caller[c].att = a /\ caller[c].st = "resolved"

\* C6: when every probe of the polling loop runs to its 300 ms timeout, the loop
\* gives up (and the attempt fails, lines 376-378) no earlier than the deadline,
\* start + 10000 ms, and no later than the deadline plus one poll interval of
\* 200 ms.
C6_TimeoutWindow ==
  (wait.pc = "done" /\ wait.result = "timeout" /\ wait.allTimedOut)
    => /\ wait.deadline <= now
       /\ now <= wait.deadline + HEALTH_POLL_INTERVAL_MS

C6_Witness ==
  /\ wait.pc = "done" /\ wait.result = "timeout" /\ wait.allTimedOut
  /\ now = wait.deadline
  /\ wait.deadline = 130 + HEALTH_POLL_TOTAL_MS

\* C7: however the characters delivered so far were cut into chunks, the 'data'
\* handler has sent the notifications, logged the events, started the result
\* fetches and kept the rest of the buffer that it would have with the same
\* characters arriving in one chunk; and the one-line stream
\* data: {"type":"progress","jobId":"j1","pct":42}\n gives, once delivered,
\* exactly one pdf2zh:progress notification, with pct 42 for job j1.
C7_ChunkingInvariant ==
  /\ relay = OnDataResult(OpenedRelay, SubSeq(wire, 1, delivered))
  /\ (wire = Concat(<<LineProgress>>) /\ delivered = Len(wire))
       => relay.sent = <<[channel |-> "pdf2zh:progress", jobId |-> "j1",
                          type |-> "progress", pct |-> 42, ok |-> FALSE,
                          result |-> NoResult, message |-> "", detail |-> ""]>>

C7_Witness ==
  /\ wire = Concat(<<LineProgress>>)
  /\ delivered = Len(wire)
  /\ chunks = 3
  /\ Len(relay.sent) = 1
  /\ relay.sent[1].channel = "pdf2zh:progress"
  /\ relay.sent[1].pct = 42

\* The notifications of the result fetches: pdf2zh:done, and the pdf2zh:error
\* notifications that come neither from an error event of the stream nor from
\* the stream's request failing.
DoneNotes == SelectSeq(relay.sent, LAMBDA n : n.channel = "pdf2zh:done")
FetchErrorNotes ==
  SelectSeq(relay.sent, LAMBDA n : /\ n.channel = "pdf2zh:error"
                                   /\ n.type = ""
                                   /\ n.message # "socket hang up")
Chains == DOMAIN relay.fetch

\* C8: a result fetch that has been answered 'job not finished' k times, k <= 10,
\* and nothing else, has not ended, and has sent nothing: the pdf2zh:done
\* notifications are as many as the fetches that have ended and the pdf2zh:error
\* notifications of the fetches as many as the fetches that have ended without
\* an ok answer; and a fetch that ended with an ok answer has sent one
\* pdf2zh:done, with ok: true and that answer as the result.
C8_RetryThenOk ==
  /\ \A i \in Chains :
       (/\ relay.fetch[i].notFinished <= DefaultRetries
        /\ relay.fetch[i].answers = relay.fetch[i].notFinished
        /\ relay.fetch[i].ending # "caught")
       => relay.fetch[i].pc # "done"
  /\ Len(DoneNotes) = Cardinality({i \in Chains : relay.fetch[i].pc = "done"})
  /\ Len(FetchErrorNotes) =
       Cardinality({i \in Chains : relay.fetch[i].pc = "done" /\ ~relay.fetch[i].last.ok})
  /\ Len(SelectSeq(DoneNotes, LAMBDA n : n.ok)) =
       Cardinality({i \in Chains : relay.fetch[i].pc = "done" /\ relay.fetch[i].last.ok})
  /\ \A k \in DOMAIN DoneNotes :
       DoneNotes[k].ok => \E i \in Chains : /\ relay.fetch[i].pc = "done"
                                            /\ relay.fetch[i].last.ok
                                            /\ DoneNotes[k] = DoneNote(TRUE, relay.fetch[i].last)

C8_Witness ==
  /\ Len(relay.fetch) = 1
  /\ relay.fetch[1].pc = "done"
  /\ relay.fetch[1].notFinished = DefaultRetries
  /\ relay.fetch[1].last = AnswerOk
  /\ DoneNotes = <<DoneNote(TRUE, AnswerOk)>>
  /\ FetchErrorNotes = <<>>

\* C9: a notification whose jobId is a job other than the one the UI watches
\* (jobIdRef.current when the handler runs) changes nothing of what the UI
\* shows: progress, status text, isTranslating, result and error stay as they
\* were.
C9_ForeignJobIgnored ==
  (handled.note.jobId # NoJobId /\ handled.note.jobId # handled.watched)
    => ~handled.changed

C9_Witness ==
  /\ handled.note.channel = "pdf2zh:done"
  /\ handled.note.jobId = "j2"
  /\ handled.watched = "j1"
  /\ jobIdRef = "j1"
  /\ isTranslating
  /\ progressPct = 42
  /\ ~handled.changed

\* A result fetch whose every request, the first and the ten retries, was
\* answered 'job not finished'.
Exhausted(i) ==
  relay.fetch[i].pc = "done" /\ relay.fetch[i].notFinished = DefaultRetries + 1

\* C10 as stated: when the retries are exhausted with 'job not finished', a
\* pdf2zh:done notification carries the last response as a failure outcome, and
\* no invented timeout message is sent.
C10_DoneCarriesLastResponse ==
  \A i \in Chains :
    Exhausted(i)
    => /\ \E k \in DOMAIN DoneNotes :
            ~DoneNotes[k].ok /\ DoneNotes[k].result = relay.fetch[i].last
       /\ \A k \in DOMAIN FetchErrorNotes :
            FetchErrorNotes[k].message \in {"job not finished", "translate failed",
                                            DefaultErrorMessage, FetchFailedMessage}

\* C10 as amended: when the retries are exhausted with 'job not finished',
\* fetchResultWithRetry ends with the last response as it is, the relay sends a
\* pdf2zh:error notification with that response's own error text and detail and
\* right after it a pdf2zh:done notification of { jobId, ok: false } without the
\* response; no failed pdf2zh:done carries a response, and no message other
\* than a response's error text or the relay's two fixed failure texts is sent.
C10_LastResponseAsIs ==
  /\ \A i \in Chains :
       Exhausted(i)
       => /\ relay.fetch[i].last = AnswerNotFinished
          /\ relay.fetch[i].ending = "resolved"
          /\ relay.fetch[i].requests = DefaultRetries + 1
          /\ \E k \in 1..(Len(relay.sent) - 1) :
               /\ relay.sent[k] = ErrorNote("job not finished", "")
               /\ relay.sent[k + 1] = DoneNote(FALSE, NoResult)
  /\ \A k \in DOMAIN DoneNotes : ~DoneNotes[k].ok => DoneNotes[k].result = NoResult
  /\ \A k \in DOMAIN FetchErrorNotes :
       FetchErrorNotes[k].message \in {"job not finished", "translate failed",
                                       DefaultErrorMessage, FetchFailedMessage}

C10_Witness ==
  /\ Len(relay.fetch) = 1
  /\ Exhausted(1)
  /\ streamPc = "open"
  /\ FetchErrorNotes = <<ErrorNote("job not finished", "")>>
  /\ DoneNotes = <<DoneNote(FALSE, NoResult)>>

\* The terminal outcomes sent for the job: a pdf2zh:done with ok: true, or a
\* pdf2zh:error.
TerminalOutcomes ==
  SelectSeq(relay.sent, LAMBDA n : (n.channel = "pdf2zh:done" /\ n.ok)
                                   \/ n.channel = "pdf2zh:error")

\* The stream has been read to its end and every result fetch has ended.
RelayQuiet ==
  delivered = Len(wire) /\ \A i \in Chains : relay.fetch[i].pc = "done"

\* C11: the relay never sends more than one terminal outcome for the job, and
\* once the stream has delivered a terminal frame ('done' or 'error') and the
\* relay has nothing left to do, it has sent exactly one.
C11_OneTerminalOutcome ==
  /\ Len(TerminalOutcomes) <= 1
  /\ (RelayQuiet /\ \E e \in DOMAIN relay.eventLog : relay.eventLog[e] \in {"done", "error"})
       => Len(TerminalOutcomes) = 1

\* C12: the notifications are sent in the order of the events that caused them:
\* a notification caused by an earlier event of the stream is never sent after
\* one caused by a later event.
C12_WireOrder ==
  \A p, q \in DOMAIN relay.causes :
    (p < q /\ relay.causes[p] # 0 /\ relay.causes[q] # 0)
      => relay.causes[p] <= relay.causes[q]

\* C13: a startEngineServer() call that returns the known port of an attempt
\* resolved earlier does so only while the worker behind that port is alive: when
\* the worker that the attempt spawned has died, the call does not settle at
\* once with the port.
C13_NoStalePort ==
  [][\A c \in Calls :
       (caller[c].st = "idle" /\ caller'[c].st = "resolved")
       => \A p \in Procs : attempt[caller'[c].att].proc = p => Alive(p)]_vars

\* C14: when a start attempt fails, every call awaiting it is rejected with the
\* attempt's error, and engineServerReady, engineServerProcess and
\* engineServerPort are all null afterwards.
C14_FailureResets ==
  [][\A a \in Attempts :
       (attempt[a].pc # "rejected" /\ attempt'[a].pc = "rejected")
       => /\ \A c \in Calls :
               (caller[c].st = "pending" /\ caller[c].att = a)
               => caller'[c].st = "rejected" /\ caller'[c].outcome = attempt'[a].outcome
          /\ attempt'[a].outcome.kind = "error"
          /\ engineServerReady' = Null
          /\ engineServerProcess' = Null
          /\ engineServerPort' = Null]_vars

\* C15: when the polling of a spawned worker times out, the forced kill of that
\* worker has been issued by the time the attempt's promise rejects, on every
\* platform.
C15_KilledBeforeRejected ==
  \A a \in Attempts :
    (attempt[a].pc = "rejected" /\ attempt[a].outcome = ErrOutcome(HealthTimeoutError))
    => proc[attempt[a].proc].sigkill >= 1

\* C15 as amended: when the polling times out, stopEngineServer() has run by
\* the time the attempt's promise rejects: the owned handle is cleared, and the
\* process it held has been sent, on win32, the forced kill (taskkill /F), and
\* on the other platforms SIGTERM only, with the forced SIGKILL left to the
\* timer of 1500 ms, that is, after the failure is surfaced; with no process
\* owned, no signal is sent.
C15_StoppedBeforeRejected ==
  [][\A a \in Attempts :
       (attempt[a].pc = "sleep" /\ attempt'[a].pc = "rejected")
       => LET p == engineServerProcess IN
          /\ attempt'[a].outcome = ErrOutcome(HealthTimeoutError)
          /\ engineServerProcess' = Null
          /\ p = Null => proc' = proc
          /\ (p # Null /\ platform = "win32")
               => proc'[p].sigkill = proc[p].sigkill + 1
          /\ (p # Null /\ platform # "win32")
               => /\ proc'[p].sigkill = proc[p].sigkill
                  /\ Alive(p) => /\ proc'[p].sigterm = proc[p].sigterm + 1
                                 /\ proc'[p].timer]_vars

C15_Witness ==
  \E a \in Attempts :
    /\ attempt[a].pc = "rejected"
    /\ attempt[a].outcome = ErrOutcome(HealthTimeoutError)
    /\ platform = "posix"
    /\ attempt[a].proc # Null
    /\ Alive(attempt[a].proc)
    /\ proc[attempt[a].proc].sigterm = 1
    /\ proc[attempt[a].proc].sigkill = 0
    /\ proc[attempt[a].proc].timer
    /\ engineServerProcess = Null

\* C16: on the platforms other than Windows, a forced kill signal reaches the
\* pid or the process group of a worker only while that worker process has not
\* exited.
C16_NoKillAfterExit ==
  [][\A p \in Procs :
       (platform # "win32" /\ proc'[p].sigkill > proc[p].sigkill) => Alive(p)]_vars

\* C17: a stopEngineServer() call made with a worker process owned, from a quit
\* event or from the health timeout, leaves engineServerProcess,
\* engineServerPort and engineServerReady null and isStoppingEngine false,
\* on either platform and also when both signal calls threw.
C17_StopClearsAll ==
  [][(/\ engineServerProcess # Null
      /\ \/ quitPc' # quitPc
         \/ \E a \in Attempts : attempt[a].pc = "sleep" /\ attempt'[a].pc = "rejected")
     => /\ engineServerProcess' = Null
        /\ engineServerPort' = Null
        /\ engineServerReady' = Null
        /\ ~isStoppingEngine']_vars

\* stopEngineServer() ran at before-quit with the exited worker still owned, and
\* both SIGTERM calls threw.
C17_Witness ==
  /\ quitPc = "quitting"
  /\ platform = "posix"
  /\ nProcs = 1
  /\ proc[1].st = "exited"
  /\ proc[1].sigterm = 0
  /\ ~proc[1].timer
  /\ engineServerProcess = Null
  /\ engineServerPort = Null
  /\ engineServerReady = Null
  /\ ~isStoppingEngine

\* C18: a result fetch issues at most 11 requests (the first and 10 retries);
\* while it runs every answer so far was 'job not finished'; it ends at the
\* first answer that is ok or whose error is not 'job not finished', or at the
\* 11th 'job not finished', which it resolves with; and it is never stuck: a
\* fetch that has not ended waits for an answer or for its delay.
C18_FetchSettles ==
  \A i \in Chains :
    LET f == relay.fetch[i] IN
    /\ f.requests <= DefaultRetries + 1
    /\ f.requests + f.retries = DefaultRetries + 1
    /\ f.pc \in {"request", "delay", "done"}
    /\ f.pc = "request" => f.answers = f.requests - 1 /\ f.notFinished = f.answers
    /\ f.pc = "delay" => f.answers = f.requests /\ f.notFinished = f.answers
    /\ (f.pc = "done" /\ f.ending = "resolved")
         => /\ f.answers = f.requests
            /\ \/ f.last.ok /\ f.notFinished = f.answers - 1
               \/ ~f.last.ok /\ f.last.error # "job not finished"
                  /\ f.notFinished = f.answers - 1
               \/ /\ f.last = AnswerNotFinished
                  /\ f.notFinished = f.answers
                  /\ f.requests = DefaultRetries + 1
    /\ (f.pc = "done" /\ f.ending = "caught") => f.notFinished = f.requests - 1

C18_Witness ==
  /\ Len(relay.fetch) = 1
  /\ relay.fetch[1].pc = "done"
  /\ relay.fetch[1].ending = "resolved"
  /\ relay.fetch[1].requests = DefaultRetries + 1
  /\ relay.fetch[1].retries = 0
  /\ relay.fetch[1].last = AnswerNotFinished

\* The places in sent of the notifications caused by event e of the stream, and
\* those notifications, in the order they were sent.
PlacesOf(e) ==
  SelectSeq([k \in 1..Len(relay.sent) |-> k], LAMBDA k : relay.causes[k] = e)
NotesOf(e) == [j \in 1..Len(PlacesOf(e)) |-> relay.sent[PlacesOf(e)[j]]]

\* C19: a result answer that is not ok and whose error is not 'job not finished'
\* ends the fetch without another request, and the fetch then has sent one
\* pdf2zh:error with the answer's error text and detail and, right after it, one
\* pdf2zh:done with ok: false, and nothing else; a failing result request gives
\* the same pair with the relay's text for it.
C19_ErrorThenDoneFalse ==
  \A i \in Chains :
    LET f == relay.fetch[i]
        hard == f.answers > 0 /\ ~f.last.ok /\ f.last.error # "job not finished"
    IN
    /\ hard => /\ f.pc = "done"
               /\ f.requests = f.answers
               /\ NotesOf(f.event) =
                    <<ErrorNote(IF f.last.error # "" THEN f.last.error
                                ELSE DefaultErrorMessage, f.last.detail),
                      DoneNote(FALSE, NoResult)>>
               /\ PlacesOf(f.event)[2] = PlacesOf(f.event)[1] + 1
    /\ f.ending = "caught"
         => /\ f.pc = "done"
            /\ NotesOf(f.event) =
                 <<ErrorNote(FetchFailedMessage, "fetch failed"), DoneNote(FALSE, NoResult)>>
            /\ PlacesOf(f.event)[2] = PlacesOf(f.event)[1] + 1

C19_Witness ==
  /\ Len(relay.fetch) = 1
  /\ relay.fetch[1].pc = "done"
  /\ relay.fetch[1].last = AnswerFailed
  /\ relay.fetch[1].requests = 1
  /\ relay.sent = <<ErrorNote("translate failed", "traceback"), DoneNote(FALSE, NoResult)>>

\* C20: the relay makes at most one request for the events of a job, also after
\* that request has failed; a failed request has sent exactly one pdf2zh:error
\* for the job, carrying the transport error's message, and while the request
\* has not failed no such notification is sent.
C20_OneShotStream ==
  /\ relay.streams <= 1
  /\ streamPc = "failed"
       => relay.streams = 1 /\ NotesOf(0) = <<ErrorNote("socket hang up", "")>>
  /\ streamPc # "failed" => NotesOf(0) = <<>>

C20_Witness ==
  /\ streamPc = "failed"
  /\ relay.streams = 1
  /\ delivered > 0
  /\ NotesOf(0) = <<ErrorNote("socket hang up", "")>>
  /\ Len(relay.sent) > 1

\* The retry counters of the result fetches in f.
Retries(f) == [i \in DOMAIN f |-> f[i].retries]

\* C21: no step of the relay of a job changes engineServerProcess,
\* engineServerPort, engineServerReady or isStoppingEngine; a step of the second
\* job's stream or fetches leaves the line buffer and the retry counters of the
\* first job as they were, and a step of the first job's leaves those of the
\* second.
C21_RelayFrame ==
  [][/\ UNCHANGED <<engineServerProcess, engineServerPort, engineServerReady,
                    isStoppingEngine>>
     /\ otherJob' # otherJob
          => /\ relay'.buffer = relay.buffer
             /\ Retries(relay'.fetch) = Retries(relay.fetch)
     /\ <<wire, delivered, relay, streamPc>>' # <<wire, delivered, relay, streamPc>>
          => /\ otherJob'.buffer = otherJob.buffer
             /\ Retries(otherJob'.fetch) = Retries(otherJob.fetch)]_vars

\* Both streams hold a partial line and both jobs have retried their result.
C21_Witness ==
  /\ relay.buffer # <<>>
  /\ otherJob.buffer # <<>>
  /\ relay.buffer # otherJob.buffer
  /\ Len(relay.fetch) = 1 /\ Len(otherJob.fetch) = 1
  /\ relay.fetch[1].retries = DefaultRetries - 1
  /\ otherJob.fetch[1].retries = DefaultRetries - 2
  /\ engineServerPort = ENGINE_PORT

\* C22: every worker process that the supervisor spawned, that is alive and
\* that has been sent no termination signal is the process referenced by
\* engineServerProcess; a 'close' event of an earlier, stopped worker does not
\* clear the handle of a newer worker.
C22_LiveWorkerOwned ==
  \A p \in Procs :
    (Alive(p) /\ proc[p].sigterm = 0 /\ proc[p].sigkill = 0) => engineServerProcess = p

\* C23: an attempt that was awaiting its initial health probe when
\* stopEngineServer() was called (from before-quit, will-quit or a health
\* timeout) spawns no worker process afterwards.
C23_NoSpawnAfterStop ==
  [][\A a \in Attempts :
       (attempt[a].pc = "probe" /\ attempt[a].stopped)
       => (attempt'[a].proc = Null /\ nProcs' = nProcs)]_vars

\* The start-translate handler has settled, its reply has reached start(), and
\* the stream, if one was opened, has delivered a done frame whose result fetch
\* has ended and whose notifications the renderer has all received.
StartSettled ==
  /\ startHandler.pc = "settled"
  /\ startCalls = 0
  /\ streamPc # "idle"
       => /\ Chains # {}
          /\ RelayQuiet
          /\ startHandler.seen = Len(relay.sent)

\* C24: once the start-translate handler has settled (returned a jobId,
\* returned jobId null, or rejected) and any opened stream has delivered its
\* terminal frame, isTranslating, which start() set, is false again.
C24_TranslatingEnds == StartSettled => ~isTranslating

\* C25: engineServerPort is non-null only if engineServerReady is non-null: a
\* port is never published while no start attempt, pending or resolved, is
\* recorded.
C25_PortImpliesReady == engineServerPort # Null => engineServerReady # Null

\* C26: isStoppingEngine is false in every state between two handler steps:
\* stopEngineServer() sets it and resets it within one synchronous step, so no
\* call of stopEngineServer() finds it set and returns early because of it.
C26_FlagNeverObserved == ~isStoppingEngine

\* stopEngineServer() has signalled a worker on the health timeout and has run
\* again at before-quit and at will-quit.
C26_Witness ==
  /\ quitPc = "quit"
  /\ ~isStoppingEngine
  /\ \E a \in Attempts :
       /\ attempt[a].outcome = ErrOutcome(HealthTimeoutError)
       /\ attempt[a].proc # Null
       /\ proc[attempt[a].proc].sigterm + proc[attempt[a].proc].sigkill >= 1

====
